---- MODULE Spec2Model ----
(***************************************************************************)
(* Model of static/js/app.js (class MailApp): the three-feed load, the     *)
(* normalized store, the rendered list with its filter and search, and the *)
(* detail modal with its Leaflet map; and the pure methods (normalizers,   *)
(* formatDate, extractDetails, extractLocationData) called on their own.   *)
(*                                                                         *)
(* Conventions.  A JavaScript string that is searched or concatenated is a *)
(* sequence of one-character strings (<<"H","i">>); the empty sequence is  *)
(* the empty string.  An id is an atomic string.  A date is its parsed     *)
(* time value in milliseconds.  A JSON payload is tagged with its kind     *)
(* ("array", "object", "null"); a raw record is a function from the field  *)
(* names it has to their values, so a field the record lacks is undefined. *)
(***************************************************************************)
EXTENDS Integers, Sequences, FiniteSets, TLC

\* ------------------------------------------------------------------ bounds

\* load invocations that may be in flight at the same time
MaxLoads == 2
\* Leaflet map instances that may be alive at the same time
MaxMaps == 2
\* the longest ages formatDate is called with, in minutes, hours and days
MaxMinutes == 61
MaxHours == 25
MaxDays == 8

\* ------------------------------------------------------- program constants

MinuteMs == 60000
HourMs == 3600000
DayMs == 86400000
MinutesPerHour == 60
HoursPerDay == 24
DaysPerWeek == 7

\* ----------------------------------------------------------------- helpers

Min(S) == CHOOSE x \in S : \A y \in S : x <= y

Range(s) == {s[i] : i \in 1..Len(s)}

Has(r, f) == f \in DOMAIN r

\* JavaScript truthiness of a string, an id and a number
TruthyStr(v) == v # <<>>
TruthyId(v) == v # ""
TruthyNum(v) == v # 0

\* a || b || ... || dflt over fields whose values are strings
OrStr(r, fs, dflt) ==
    LET idx == {i \in 1..Len(fs) : Has(r, fs[i]) /\ TruthyStr(r[fs[i]])}
    IN  IF idx = {} THEN dflt ELSE r[fs[Min(idx)]]

\* a || b || dflt over fields whose values are dates
OrNum(r, fs, dflt) ==
    LET idx == {i \in 1..Len(fs) : Has(r, fs[i]) /\ TruthyNum(r[fs[i]])}
    IN  IF idx = {} THEN dflt ELSE r[fs[Min(idx)]]

\* String.prototype.toLowerCase, one character
Upper2Lower ==
    [A |-> "a", B |-> "b", C |-> "c", D |-> "d", E |-> "e", F |-> "f",
     G |-> "g", H |-> "h", I |-> "i", J |-> "j", K |-> "k", L |-> "l",
     M |-> "m", N |-> "n", O |-> "o", P |-> "p", Q |-> "q", R |-> "r",
     S |-> "s", T |-> "t", U |-> "u", V |-> "v", W |-> "w", X |-> "x",
     Y |-> "y", Z |-> "z"]

LowerChar(c) == IF c \in DOMAIN Upper2Lower THEN Upper2Lower[c] ELSE c

toLowerCase(s) == [i \in 1..Len(s) |-> LowerChar(s[i])]

\* String.prototype.includes
Includes(text, q) ==
    \E i \in 0..(Len(text) - Len(q)) : SubSeq(text, i + 1, i + Len(q)) = q

\* String.prototype.trim, for a string whose only whitespace is " "
RECURSIVE TrimLeft(_)
TrimLeft(s) == IF s # <<>> /\ Head(s) = " " THEN TrimLeft(Tail(s)) ELSE s

RECURSIVE TrimRight(_)
TrimRight(s) ==
    IF s # <<>> /\ s[Len(s)] = " " THEN TrimRight(SubSeq(s, 1, Len(s) - 1)) ELSE s

trim(s) == TrimRight(TrimLeft(s))

DigitChars == <<"0", "1", "2", "3", "4", "5", "6", "7", "8", "9">>

\* the decimal digits of a natural number (template-literal conversion)
RECURSIVE Digits(_)
Digits(n) ==
    IF n < 10 THEN <<DigitChars[n + 1]>>
    ELSE Digits(n \div 10) \o <<DigitChars[(n % 10) + 1]>>

\* ----------------------------------------------------------- JSON payloads

JArray(items) == [kind |-> "array", items |-> items]
JObject(fields) == [kind |-> "object", fields |-> fields]
JNull == [kind |-> "null"]

\* !data is true of null only: arrays and objects are truthy, empty or not
TruthyJson(v) == v.kind # "null"

IsArray(v) == v.kind = "array"

\* data[key], undefined (FALSE here) when data is not an object with that key
HasKey(data, key) == data.kind = "object" /\ key \in DOMAIN data.fields

\* Unwrap written as data.data || data.<key> || data
Unwrap_DataFirst(data, key) ==
    IF HasKey(data, "data") /\ TruthyJson(data.fields["data"])
    THEN data.fields["data"]
    ELSE IF HasKey(data, key) /\ TruthyJson(data.fields[key])
         THEN data.fields[key]
         ELSE data

\* data.<key> || data.data || data
Unwrap(data, key) ==
    IF HasKey(data, key) /\ TruthyJson(data.fields[key]) THEN data.fields[key]
    ELSE IF HasKey(data, "data") /\ TruthyJson(data.fields["data"])
         THEN data.fields["data"]
         ELSE data

\* ------------------------------------------------------------- normalizers

\* item.id || Math.random().toString(36)
ItemId(item, rnd) == IF Has(item, "id") /\ TruthyId(item.id) THEN item.id ELSE rnd

\* ItemUnread written as item.unread || true
ItemUnread_OrTrue(item) ==
    IF Has(item, "unread") /\ item.unread = TRUE THEN item.unread ELSE TRUE

\* item.unread !== undefined ? item.unread : true
ItemUnread(item) == IF Has(item, "unread") THEN item.unread ELSE TRUE

\* an array element that is null; a record is otherwise an object
NullRecord == [null |-> TRUE]

\* an array element that is a number: every property read of it is undefined
NumberRecord == [number |-> TRUE]

\* the callback of items.map reads item.id first: a TypeError when item is null
RecordThrows(item) == item = NullRecord

\* whether normalize<Source>Data(data), which unwraps data under key, throws
normalizeThrows(data, key) ==
    /\ TruthyJson(data)
    /\ IsArray(Unwrap(data, key))
    /\ \E i \in 1..Len(Unwrap(data, key).items) :
          RecordThrows(Unwrap(data, key).items[i])

normalizeMailItem(item, now, rnd) ==
    [id |-> ItemId(item, rnd),
     type |-> "mail",
     from |-> OrStr(item, <<"from", "sender">>, <<"U", "n", "k", "n", "o", "w", "n">>),
     subject |-> OrStr(item, <<"subject">>,
                       <<"N", "o", " ", "S", "u", "b", "j", "e", "c", "t">>),
     preview |-> OrStr(item, <<"preview", "body">>, <<>>),
     date |-> OrNum(item, <<"date", "created_at">>, now),
     unread |-> ItemUnread(item),
     originalData |-> item]

normalizeLetterItem(item, now, rnd) ==
    [id |-> ItemId(item, rnd),
     type |-> "letter",
     from |-> OrStr(item, <<"from", "sender">>, <<"U", "n", "k", "n", "o", "w", "n">>),
     subject |-> OrStr(item, <<"subject", "title">>, <<"L", "e", "t", "t", "e", "r">>),
     preview |-> OrStr(item, <<"preview", "description">>, <<>>),
     date |-> OrNum(item, <<"date", "received_at">>, now),
     unread |-> ItemUnread(item),
     originalData |-> item]

normalizePackageItem(item, now, rnd) ==
    [id |-> ItemId(item, rnd),
     type |-> "package",
     from |-> OrStr(item, <<"from", "sender", "carrier">>,
                    <<"U", "n", "k", "n", "o", "w", "n">>),
     subject |-> OrStr(item, <<"subject", "tracking_number">>,
                       <<"P", "a", "c", "k", "a", "g", "e">>),
     preview |-> OrStr(item, <<"preview", "description", "status">>, <<>>),
     date |-> OrNum(item, <<"date", "received_at">>, now),
     unread |-> ItemUnread(item),
     originalData |-> item]

\* rnd[i] is what Math.random().toString(36) returns for the i-th record
normalizeMailData(data, now, rnd) ==
    IF ~TruthyJson(data) THEN <<>>
    ELSE LET items == Unwrap(data, "mail")
         IN  IF ~IsArray(items) THEN <<>>
             ELSE [i \in 1..Len(items.items) |->
                      normalizeMailItem(items.items[i], now, rnd[i])]

normalizeLettersData(data, now, rnd) ==
    IF ~TruthyJson(data) THEN <<>>
    ELSE LET items == Unwrap(data, "letters")
         IN  IF ~IsArray(items) THEN <<>>
             ELSE [i \in 1..Len(items.items) |->
                      normalizeLetterItem(items.items[i], now, rnd[i])]

normalizePackagesData(data, now, rnd) ==
    IF ~TruthyJson(data) THEN <<>>
    ELSE LET items == Unwrap(data, "packages")
         IN  IF ~IsArray(items) THEN <<>>
             ELSE [i \in 1..Len(items.items) |->
                      normalizePackageItem(items.items[i], now, rnd[i])]

\* ------------------------------------------------------------ view helpers

\* the comparator of displayMail: new Date(b.date) - new Date(a.date)
CompareByDate(a, b) == b.date - a.date

\* InsertSorted as a sort that is not stable would do it: x placed before
\* the elements the comparator ties with it
InsertSorted_BeforeTies(x, s) ==
    LET k == Cardinality({i \in 1..Len(s) : CompareByDate(s[i], x) < 0})
    IN  SubSeq(s, 1, k) \o <<x>> \o SubSeq(s, k + 1, Len(s))

\* x placed behind every element of the sorted s that the comparator does not
\* put after it
InsertSorted(x, s) ==
    LET k == Cardinality({i \in 1..Len(s) : CompareByDate(s[i], x) <= 0})
    IN  SubSeq(s, 1, k) \o <<x>> \o SubSeq(s, k + 1, Len(s))

\* Array.prototype.sort with that comparator; the sort is stable (ES2019)
RECURSIVE SortByDate(_)
SortByDate(s) ==
    IF s = <<>> THEN <<>>
    ELSE InsertSorted(s[Len(s)], SortByDate(SubSeq(s, 1, Len(s) - 1)))

\* toLocaleDateString('en-US', {month, day}): the calendar day, written as its
\* day number since the epoch
ShortDate(date) == <<"D">> \o Digits(date \div DayMs)

\* formatDate with the comparisons written <=
formatDate_Inclusive(date, now) ==
    LET diffMs == now - date
        diffMins == diffMs \div MinuteMs
        diffHours == diffMs \div HourMs
        diffDays == diffMs \div DayMs
    IN  IF diffMins < 1 THEN <<"n", "o", "w">>
        ELSE IF diffMins <= MinutesPerHour THEN Digits(diffMins) \o <<"m">>
        ELSE IF diffHours <= HoursPerDay THEN Digits(diffHours) \o <<"h">>
        ELSE IF diffDays <= DaysPerWeek THEN Digits(diffDays) \o <<"d">>
        ELSE ShortDate(date)

formatDate(date, now) ==
    LET diffMs == now - date
        diffMins == diffMs \div MinuteMs
        diffHours == diffMs \div HourMs
        diffDays == diffMs \div DayMs
    IN  IF diffMins < 1 THEN <<"n", "o", "w">>
        ELSE IF diffMins < MinutesPerHour THEN Digits(diffMins) \o <<"m">>
        ELSE IF diffHours < HoursPerDay THEN Digits(diffHours) \o <<"h">>
        ELSE IF diffDays < DaysPerWeek THEN Digits(diffDays) \o <<"d">>
        ELSE ShortDate(date)

\* item.type.charAt(0).toUpperCase() + item.type.slice(1)
BadgeText(type) ==
    CASE type = "mail" -> <<"M", "a", "i", "l">>
      [] type = "letter" -> <<"L", "e", "t", "t", "e", "r">>
      [] type = "package" -> <<"P", "a", "c", "k", "a", "g", "e">>

\* the textContent of the <li> createMailItemHTML builds, runs of white space
\* written as one space
ItemText(item, now) ==
    item.from \o <<" ">> \o BadgeText(item.type) \o <<" ">>
        \o formatDate(item.date, now) \o <<" ">> \o item.subject \o <<" ">>
        \o item.preview

\* one rendered <li class="mail-item">; hidden is style.display = 'none'
createMailItemHTML(item, now) ==
    [item |-> item, text |-> ItemText(item, now), hidden |-> FALSE]

\* BaseItems with the arrays of two cases exchanged
BaseItems_Swapped(filter, md, all) ==
    CASE filter = "mail" -> md.mail
      [] filter = "letters" -> md.packages
      [] filter = "packages" -> md.letters
      [] filter = "unread" -> SelectSeq(all, LAMBDA it : it.unread)
      [] OTHER -> all

\* the switch of displayMail: the array the filter selects
BaseItems(filter, md, all) ==
    CASE filter = "mail" -> md.mail
      [] filter = "letters" -> md.letters
      [] filter = "packages" -> md.packages
      [] filter = "unread" -> SelectSeq(all, LAMBDA it : it.unread)
      [] OTHER -> all

\* displayMail rendering the union whatever the filter is
displayMail_AlwaysAll(filter, md, all, now) ==
    LET sorted == SortByDate(all)
    IN  [mailList |->
            IF sorted = <<>> THEN [kind |-> "empty", rows |-> <<>>]
            ELSE [kind |-> "items",
                  rows |-> [i \in 1..Len(sorted) |->
                               createMailItemHTML(sorted[i], now)]],
         mailData |-> md,
         allMailItems |-> sorted]

\* displayMail: the list it renders and the store as the in-place sort of the
\* selected array leaves it ('unread' sorts a copy)
displayMail(filter, md, all, now) ==
    LET sorted == SortByDate(BaseItems(filter, md, all))
    IN  [mailList |->
            IF sorted = <<>> THEN [kind |-> "empty", rows |-> <<>>]
            ELSE [kind |-> "items",
                  rows |-> [i \in 1..Len(sorted) |->
                               createMailItemHTML(sorted[i], now)]],
         mailData |->
            CASE filter = "mail" -> [md EXCEPT !.mail = sorted]
              [] filter = "letters" -> [md EXCEPT !.letters = sorted]
              [] filter = "packages" -> [md EXCEPT !.packages = sorted]
              [] OTHER -> md,
         allMailItems |->
            IF filter \in {"mail", "letters", "packages", "unread"} THEN all
            ELSE sorted]

\* updateStats with a total that leaves the packages out
updateStats_NoPackages(md, all) ==
    [totalMail |-> Len(md.mail),
     totalLetters |-> Len(md.letters),
     totalPackages |-> Len(md.packages),
     totalAll |-> Len(md.mail) + Len(md.letters),
     unread |-> Len(SelectSeq(all, LAMBDA it : it.unread))]

\* updateStats with an unread count that counts every item
updateStats_UnreadIsAll(md, all) ==
    [totalMail |-> Len(md.mail),
     totalLetters |-> Len(md.letters),
     totalPackages |-> Len(md.packages),
     totalAll |-> Len(md.mail) + Len(md.letters) + Len(md.packages),
     unread |-> Len(all)]

\* updateStats: the numbers written into the statistics cards
updateStats(md, all) ==
    [totalMail |-> Len(md.mail),
     totalLetters |-> Len(md.letters),
     totalPackages |-> Len(md.packages),
     totalAll |-> Len(md.mail) + Len(md.letters) + Len(md.packages),
     unread |-> Len(SelectSeq(all, LAMBDA it : it.unread))]

\* searchMail: display of each <li> by whether its text includes the query
searchMail(list, query) ==
    [list EXCEPT !.rows =
        [i \in 1..Len(list.rows) |->
            [list.rows[i] EXCEPT !.hidden =
                ~Includes(toLowerCase(list.rows[i].text), toLowerCase(query))]]]

\* ------------------------------------------------------------- detail view

\* the fields extractDetails looks at, in the order of its if statements
DetailFields ==
    <<"id", "status", "tracking_number", "carrier", "weight", "dimensions",
      "sender_address", "recipient_address", "estimated_delivery">>

\* the label each of them is pushed with
DetailLabel ==
    [id |-> "ID", status |-> "Status", tracking_number |-> "Tracking",
     carrier |-> "Carrier", weight |-> "Weight", dimensions |-> "Dimensions",
     sender_address |-> "Sender Address", recipient_address |-> "Recipient",
     estimated_delivery |-> "Est. Delivery"]

\* if (data.<f>): an id is an atomic string, a weight a number, the other
\* fields are strings
TruthyField(f, v) ==
    CASE f = "id" -> TruthyId(v)
      [] f = "weight" -> TruthyNum(v)
      [] OTHER -> TruthyStr(v)

\* extractDetails pushing every field the record has, empty or not
extractDetails_PresentOnly(item) ==
    LET data == item.originalData
        kept == SelectSeq(DetailFields, LAMBDA f : Has(data, f))
    IN  [i \in 1..Len(kept) |->
            [label |-> DetailLabel[kept[i]], value |-> data[kept[i]]]]

\* extractDetails: the {label, value} pairs pushed, in order
extractDetails(item) ==
    LET data == item.originalData
        kept == SelectSeq(DetailFields,
                          LAMBDA f : Has(data, f) /\ TruthyField(f, data[f]))
    IN  [i \in 1..Len(kept) |->
            [label |-> DetailLabel[kept[i]], value |-> data[kept[i]]]]

\* extractLocationData: <<>> is null, <<p>> the object returned; a coordinate
\* that is undefined in the object is a field p lacks
extractLocationData(item) ==
    LET data == item.originalData
    IN  IF /\ Has(data, "location")
           /\ Has(data.location, "lat") /\ TruthyNum(data.location.lat)
           /\ Has(data.location, "lng") /\ TruthyNum(data.location.lng)
        THEN <<[lat |-> data.location.lat,
                lng |-> data.location.lng,
                label |-> IF Has(data.location, "label")
                             /\ TruthyId(data.location.label)
                          THEN data.location.label ELSE "Location"]>>
        ELSE IF /\ Has(data, "latitude") /\ TruthyNum(data.latitude)
                /\ Has(data, "longitude") /\ TruthyNum(data.longitude)
        THEN <<[lat |-> data.latitude, lng |-> data.longitude,
                label |-> "Location"]>>
        ELSE IF Has(data, "tracking_location")
        THEN <<[f \in ({"lat", "lng"} \cap DOMAIN data.tracking_location)
                       \cup {"label"} |->
                   IF f = "label" THEN "Tracking Location"
                   ELSE data.tracking_location[f]]>>
        ELSE <<>>

\* What the Leaflet calls of initMap may do: all succeed ("none"), L.map
\* throws before an instance exists ("map"), setView throws on the instance
\* L.map has just created ("setView": Leaflet rejects a coordinate that is
\* no number), or tileLayer / marker throws once the instance is assigned
\* ("layer").
MapFaults == {"none", "map", "setView", "layer"}

NoMap == 0

MapIds == 1..MaxMaps

\* initMap: the field currentMap, the Leaflet instances alive afterwards, and
\* whether the catch block itself threw (toFixed of an undefined coordinate)
initMap(cur, alive, loc, fault) ==
    LET disposed == IF cur # NoMap THEN alive \ {cur} ELSE alive
        fresh == Min(MapIds \ disposed)
    IN  [currentMap |-> IF fault \in {"none", "layer"} THEN fresh ELSE NoMap,
         mapsAlive |-> IF fault = "map" THEN disposed ELSE disposed \cup {fresh},
         threw |-> fault # "none" /\ ~(Has(loc, "lat") /\ Has(loc, "lng"))]

\* closeModal's cleanup of the map
closeModalMap(cur, alive) ==
    [currentMap |-> NoMap,
     mapsAlive |-> IF cur # NoMap THEN alive \ {cur} ELSE alive]

\* ------------------------------------------------------------------- feeds

\* the clock when the page is opened
Now0 == 10 * DayMs

Sources == {"mail", "letters", "packages"}

Filters == {"all", "mail", "letters", "packages", "unread"}

RawM1 ==
    [id |-> "m1", from |-> <<"a", "n", "n">>, subject |-> <<"H", "i">>,
     preview |-> <<"y", "o">>, date |-> Now0 - 2 * HourMs, unread |-> FALSE]

RawM2 ==
    [id |-> "m2", sender |-> <<"b", "o", "b">>, body |-> <<"o", "k">>,
     created_at |-> Now0 - HourMs]

RawL1 ==
    [id |-> "l1", title |-> <<"H", "i">>, received_at |-> Now0 - HourMs,
     unread |-> TRUE, location |-> [lat |-> 1, lng |-> 2, label |-> "Home"]]

RawP1 ==
    [tracking_number |-> <<"T", "1">>, carrier |-> <<"u", "p", "s">>,
     date |-> Now0 - 3 * HourMs, unread |-> FALSE,
     tracking_location |-> [label |-> "Depot"]]

RawP2 ==
    [id |-> "p2", description |-> <<"b", "o", "x">>, latitude |-> 3,
     longitude |-> 4]

\* what the three endpoints answer: a bare array, an array under the
\* category key, an array under "data"
Feed ==
    [mail |-> JArray(<<RawM1, RawM2>>),
     letters |-> JObject([letters |-> JArray(<<RawL1>>)]),
     packages |-> JObject([data |-> JArray(<<RawP1, RawP2>>)])]

\* a JSON object that holds no list
ErrorBody == JObject([error |-> <<"n", "o">>])

\* a body response.json() rejects
BadJson == [kind |-> "invalid"]

\* what an endpoint may answer: its feed, a body that is no JSON, or an error
\* object with an error status; the mail endpoint also an object without a
\* list with status 200, the packages endpoint also a list with a null in it
Responses ==
    [s \in Sources |->
        {[ok |-> TRUE, body |-> Feed[s]], [ok |-> TRUE, body |-> BadJson],
         [ok |-> FALSE, body |-> ErrorBody]}
        \cup (IF s = "mail" THEN {[ok |-> TRUE, body |-> ErrorBody]} ELSE {})
        \cup (IF s = "packages"
              THEN {[ok |-> TRUE, body |-> JArray(<<RawP2, NullRecord>>)]}
              ELSE {})]

\* what Math.random().toString(36) may return for the records of one load,
\* by source and position
FirstDraw ==
    [mail |-> <<"0.a1", "0.a2">>, letters |-> <<"0.a3">>,
     packages |-> <<"0.a4", "0.a5">>]

RandDraws == {FirstDraw}

KeyInputs == {<<" ">>, <<" ", "k", " ">>}

Queries == {<<>>, <<"H", "I">>}

\* ------------------------------------------------------------------- state

VARIABLES
    currentFilter,  \* this.currentFilter
    apiKey,         \* this.apiKey
    mailData,       \* this.mailData
    allMailItems,   \* this.allMailItems
    currentMap,     \* this.currentMap: NoMap (null) or a Leaflet instance
    mapsAlive,      \* the Leaflet instances created and not yet removed
    mailList,       \* the content of #mailList
    stats,          \* the numbers shown in the statistics cards
    searchBox,      \* the value of #searchBox
    refreshBtn,     \* #refreshBtn: "idle" or "loading"
    modal,          \* #mailModal and #mapSection: displayed or not
    loads,          \* the loadAllMail invocations in flight
    now,            \* the clock
    provenance,     \* history: the invocation that wrote each collection
    delivered,      \* history: the store as the last successful load wrote it
    call            \* history: the last call of a pure method, its arguments
                    \* and what it returned

vars ==
    <<currentFilter, apiKey, mailData, allMailItems, currentMap, mapsAlive,
      mailList, stats, searchBox, refreshBtn, modal, loads, now, provenance,
      delivered, call>>

LoadIds == 1..MaxLoads

\* no pure method has been called yet; a behaviour records the first call,
\* a pure method returning the same whatever was called before
NoCall == [fn |-> "none"]

EmptyStore == [mail |-> <<>>, letters |-> <<>>, packages |-> <<>>]

\* an invocation slot: pending counts the fetches Promise.all still waits for;
\* shown is history, the items listed when the invocation began
IdleLoad == [pc |-> "idle", pending |-> 0, shown |-> <<>>]

\* the items of the list a user sees
DisplayedItems(list) ==
    LET visible == SelectSeq(list.rows, LAMBDA r : ~r.hidden)
    IN  [i \in 1..Len(visible) |-> visible[i].item]

LoadingList == [kind |-> "loading", rows |-> <<>>]

ErrorList == [kind |-> "error", rows |-> <<>>]

Init ==
    /\ currentFilter = "all"
    /\ apiKey \in {<<>>, <<"k">>}
    /\ mailData = EmptyStore
    /\ allMailItems = <<>>
    /\ currentMap = NoMap
    /\ mapsAlive = {}
    /\ mailList = [kind |-> "initial", rows |-> <<>>]
    /\ stats = updateStats(EmptyStore, <<>>)
    /\ searchBox = <<>>
    /\ refreshBtn = "idle"
    /\ modal = [display |-> FALSE, mapSection |-> FALSE]
    /\ loads = [l \in LoadIds |-> IdleLoad]
    /\ now = Now0
    /\ provenance = [mail |-> 0, letters |-> 0, packages |-> 0, all |-> 0]
    /\ delivered = [mailData |-> EmptyStore, allMailItems |-> <<>>]
    /\ call = NoCall

\* ----------------------------------------------------------------- actions

\* saveApiKey: an empty trimmed input only raises an alert
SaveApiKey(input) ==
    /\ trim(input) # <<>>
    /\ apiKey' = trim(input)
    /\ UNCHANGED <<currentFilter, mailData, allMailItems, currentMap, mapsAlive,
                   mailList, stats, searchBox, refreshBtn, modal, loads, now,
                   provenance, delivered, call>>

SaveApiKeyEmpty(input) ==
    /\ trim(input) = <<>>
    /\ UNCHANGED vars

\* loadAllMail without a key and without the return: showError, then
\* showLoading and the three fetches
LoadAllMailNoKey_NoReturn ==
    /\ apiKey = <<>>
    /\ \E l \in LoadIds :
          /\ loads[l].pc = "idle"
          /\ \A k \in LoadIds : loads[k].pc = "idle" => l <= k
          /\ loads' = [loads EXCEPT ![l] =
                          [pc |-> "fetching",
                           pending |-> Cardinality(Sources),
                           shown |-> <<>>]]
    /\ mailList' = LoadingList
    /\ refreshBtn' = "loading"
    /\ UNCHANGED <<currentFilter, apiKey, mailData, allMailItems, currentMap,
                   mapsAlive, stats, searchBox, modal, now, provenance,
                   delivered, call>>

\* loadAllMail without a key: showError and return
LoadAllMailNoKey ==
    /\ apiKey = <<>>
    /\ mailList' = ErrorList
    /\ refreshBtn' = "idle"
    /\ UNCHANGED <<currentFilter, apiKey, mailData, allMailItems, currentMap,
                   mapsAlive, stats, searchBox, modal, loads, now, provenance,
                   delivered, call>>

\* loadAllMail up to its first await: showLoading, three fetches issued.
\* before is what the history field shown of the invocation records.
LoadAllMailBegin(l, before) ==
    /\ apiKey # <<>>
    /\ loads[l].pc = "idle"
    /\ \A k \in LoadIds : loads[k].pc = "idle" => l <= k
    /\ loads' = [loads EXCEPT ![l] =
                    [pc |-> "fetching",
                     pending |-> Cardinality(Sources),
                     shown |-> before]]
    /\ mailList' = LoadingList
    /\ refreshBtn' = "loading"
    /\ UNCHANGED <<currentFilter, apiKey, mailData, allMailItems, currentMap,
                   mapsAlive, stats, searchBox, modal, now, provenance,
                   delivered, call>>

LoadAllMail(l) == LoadAllMailBegin(l, <<>>)

\* the same step, recording the items the list showed when it was taken
LoadAllMailShown(l) == LoadAllMailBegin(l, DisplayedItems(mailList))

\* Promise.all fulfils: the last of the pending fetches resolves with a
\* response.  The earlier ones run no code of the program, so the fetches
\* resolve in this one step.
FetchFulfil(l) ==
    /\ loads[l].pc = "fetching"
    /\ loads[l].pending > 0
    /\ loads' = [loads EXCEPT ![l].pending = 0]
    /\ UNCHANGED <<currentFilter, apiKey, mailData, allMailItems, currentMap,
                   mapsAlive, mailList, stats, searchBox, refreshBtn, modal, now,
                   provenance, delivered, call>>

\* a rejection nothing catches: the invocation ends, nothing is shown
FetchReject_Uncaught(l) ==
    /\ loads[l].pc = "fetching"
    /\ loads[l].pending > 0
    /\ loads' = [loads EXCEPT ![l] = IdleLoad]
    /\ UNCHANGED <<currentFilter, apiKey, mailData, allMailItems, currentMap,
                   mapsAlive, mailList, stats, searchBox, refreshBtn, modal, now,
                   provenance, delivered, call>>

\* one of the pending fetches rejects: Promise.all rejects, the catch block
\* runs showError
FetchReject(l) ==
    /\ loads[l].pc = "fetching"
    /\ loads[l].pending > 0
    /\ loads' = [loads EXCEPT ![l] = IdleLoad]
    /\ mailList' = ErrorList
    /\ refreshBtn' = "idle"
    /\ UNCHANGED <<currentFilter, apiKey, mailData, allMailItems, currentMap,
                   mapsAlive, stats, searchBox, modal, now, provenance,
                   delivered, call>>

\* loadAllMailTry with the status checked after the store is written
loadAllMailTry_StoreBeforeCheck(resp, md, all, clock, rnd) ==
    IF \E s \in Sources : resp[s].body = BadJson
    THEN [committed |-> FALSE, mailData |-> md, allMailItems |-> all, wrote |-> {}]
    ELSE IF \E s \in Sources : normalizeThrows(resp[s].body, s)
    THEN [committed |-> FALSE, mailData |-> md, allMailItems |-> all, wrote |-> {}]
    ELSE LET new == [mail |-> normalizeMailData(resp["mail"].body, clock, rnd["mail"]),
                     letters |-> normalizeLettersData(resp["letters"].body,
                                                      clock, rnd["letters"]),
                     packages |-> normalizePackagesData(resp["packages"].body,
                                                        clock, rnd["packages"])]
         IN  [committed |-> resp["mail"].ok /\ resp["letters"].ok
                               /\ resp["packages"].ok,
              mailData |-> new,
              allMailItems |-> new.mail \o new.letters \o new.packages,
              wrote |-> {"mail", "letters", "packages", "all"}]

\* loadAllMailTry without the rebuild of the union
loadAllMailTry_StaleUnion(resp, md, all, clock, rnd) ==
    IF \E s \in Sources : resp[s].body = BadJson
    THEN [committed |-> FALSE, mailData |-> md, allMailItems |-> all, wrote |-> {}]
    ELSE IF ~resp["mail"].ok \/ ~resp["letters"].ok \/ ~resp["packages"].ok
    THEN [committed |-> FALSE, mailData |-> md, allMailItems |-> all, wrote |-> {}]
    ELSE IF \E s \in Sources : normalizeThrows(resp[s].body, s)
    THEN [committed |-> FALSE, mailData |-> md, allMailItems |-> all, wrote |-> {}]
    ELSE [committed |-> TRUE,
          mailData |->
              [mail |-> normalizeMailData(resp["mail"].body, clock, rnd["mail"]),
               letters |-> normalizeLettersData(resp["letters"].body, clock,
                                                rnd["letters"]),
               packages |-> normalizePackagesData(resp["packages"].body, clock,
                                                  rnd["packages"])],
          allMailItems |-> all,
          wrote |-> {"mail", "letters", "packages"}]

\* The try block of loadAllMail from the first response.json() on.  resp[s] is
\* the response of source s, with its status and its body; they are read here
\* for the first time.  A body that does not parse makes json()
\* reject, a status that is not ok makes the code throw, and so does a
\* normalizer that meets a null record, before the object literal it is
\* called in is assigned: all three leave the store as it is.  wrote names the collections the block assigned.
loadAllMailTry(resp, md, all, clock, rnd) ==
    IF \E s \in Sources : resp[s].body = BadJson
    THEN [committed |-> FALSE, mailData |-> md, allMailItems |-> all, wrote |-> {}]
    ELSE IF ~resp["mail"].ok \/ ~resp["letters"].ok \/ ~resp["packages"].ok
    THEN [committed |-> FALSE, mailData |-> md, allMailItems |-> all, wrote |-> {}]
    ELSE IF \E s \in Sources : normalizeThrows(resp[s].body, s)
    THEN [committed |-> FALSE, mailData |-> md, allMailItems |-> all, wrote |-> {}]
    ELSE LET new == [mail |-> normalizeMailData(resp["mail"].body, clock, rnd["mail"]),
                     letters |-> normalizeLettersData(resp["letters"].body,
                                                      clock, rnd["letters"]),
                     packages |-> normalizePackagesData(resp["packages"].body,
                                                        clock, rnd["packages"])]
         IN  [committed |-> TRUE,
              mailData |-> new,
              allMailItems |-> new.mail \o new.letters \o new.packages,
              wrote |-> {"mail", "letters", "packages", "all"}]

\* a load that ends in the catch block draws no random id
LoadThrows(resp) ==
    \E s \in Sources :
        resp[s].body = BadJson \/ ~resp[s].ok \/ normalizeThrows(resp[s].body, s)

\* the rest of loadAllMail once the three fetches have resolved: parse, check,
\* store, updateStats, displayMail, showNotification; or the catch block
LoadContinue(l, resp, rnd) ==
    /\ loads[l].pc = "fetching"
    /\ loads[l].pending = 0
    /\ LoadThrows(resp) => rnd = FirstDraw
    /\ LET r == loadAllMailTry(resp, mailData, allMailItems, now, rnd)
           d == displayMail(currentFilter, r.mailData, r.allMailItems, now)
       IN  IF r.committed
           THEN /\ stats' = updateStats(r.mailData, r.allMailItems)
                /\ mailList' = d.mailList
                /\ mailData' = d.mailData
                /\ allMailItems' = d.allMailItems
                /\ delivered' = [mailData |-> r.mailData,
                                 allMailItems |-> r.allMailItems]
                /\ provenance' = [c \in DOMAIN provenance |->
                                     IF c \in r.wrote THEN l ELSE provenance[c]]
           ELSE /\ mailList' = ErrorList
                /\ mailData' = r.mailData
                /\ allMailItems' = r.allMailItems
                /\ UNCHANGED <<stats, delivered, provenance>>
    /\ refreshBtn' = "idle"
    /\ loads' = [loads EXCEPT ![l] = IdleLoad]
    /\ UNCHANGED <<currentFilter, apiKey, currentMap, mapsAlive, searchBox,
                   modal, now, call>>

\* filterMail: set the filter and render
FilterMail(category) ==
    /\ currentFilter' = category
    /\ LET d == displayMail(category, mailData, allMailItems, now)
       IN  /\ mailList' = d.mailList
           /\ mailData' = d.mailData
           /\ allMailItems' = d.allMailItems
    /\ UNCHANGED <<apiKey, currentMap, mapsAlive, stats, searchBox, refreshBtn,
                   modal, loads, now, provenance, delivered, call>>

\* the input handler of the search box
SearchMail(query) ==
    /\ searchBox' = query
    /\ mailList' = searchMail(mailList, query)
    /\ UNCHANGED <<currentFilter, apiKey, mailData, allMailItems, currentMap,
                   mapsAlive, stats, refreshBtn, modal, loads, now, provenance,
                   delivered, call>>

\* Array.prototype.find(i => i.id === itemId): <<>> when there is none
FindById(all, itemId) ==
    LET idx == {k \in 1..Len(all) : all[k].id = itemId}
    IN  IF idx = {} THEN <<>> ELSE <<all[Min(idx)]>>

\* a click on the i-th row of the list: showMailDetail(its data-id)
ShowMailDetail(i, fault) ==
    /\ i \in 1..Len(mailList.rows)
    /\ ~mailList.rows[i].hidden
    /\ LET item == FindById(allMailItems, mailList.rows[i].item.id)
           loc == IF item = <<>> THEN <<>> ELSE extractLocationData(item[1])
       IN  IF item = <<>>
           THEN fault = "none" /\ UNCHANGED <<currentMap, mapsAlive, modal>>
           ELSE IF loc = <<>>
           THEN /\ fault = "none"
                /\ modal' = [display |-> TRUE, mapSection |-> FALSE]
                /\ UNCHANGED <<currentMap, mapsAlive>>
           ELSE LET m == initMap(currentMap, mapsAlive, loc[1], fault)
                IN  /\ fault # "map" => MapIds \ (mapsAlive \ {currentMap}) # {}
                    /\ fault = "setView"
                          => ~(Has(loc[1], "lat") /\ Has(loc[1], "lng"))
                    /\ currentMap' = m.currentMap
                    /\ mapsAlive' = m.mapsAlive
                    /\ modal' = [display |-> IF m.threw THEN modal.display ELSE TRUE,
                                 mapSection |-> TRUE]
    /\ UNCHANGED <<currentFilter, apiKey, mailData, allMailItems, mailList, stats,
                   searchBox, refreshBtn, loads, now, provenance, delivered, call>>

\* closeModal: hide the modal, remove the map
CloseModal ==
    /\ modal' = [modal EXCEPT !.display = FALSE]
    /\ LET m == closeModalMap(currentMap, mapsAlive)
       IN  currentMap' = m.currentMap /\ mapsAlive' = m.mapsAlive
    /\ UNCHANGED <<currentFilter, apiKey, mailData, allMailItems, mailList, stats,
                   searchBox, refreshBtn, loads, now, provenance, delivered, call>>

\* a load from the responses on, and the other ways its fetches settle
LoadSettles ==
    \/ \E l \in LoadIds : FetchFulfil(l)
    \/ \E l \in LoadIds : FetchReject(l)
    \/ \E l \in LoadIds,
          resp \in [mail : Responses["mail"], letters : Responses["letters"],
                    packages : Responses["packages"]],
          rnd \in RandDraws :
          LoadContinue(l, resp, rnd)

KeySaved ==
    \/ \E input \in KeyInputs : SaveApiKey(input)
    \/ \E input \in KeyInputs : SaveApiKeyEmpty(input)

\* key, loads, filter and search
Next ==
    \/ KeySaved
    \/ LoadAllMailNoKey
    \/ \E l \in LoadIds : LoadAllMail(l)
    \/ LoadSettles
    \/ \E category \in Filters : FilterMail(category)
    \/ \E query \in Queries : SearchMail(query)

Spec == Init /\ [][Next]_vars

\* key, loads and the detail modal
NextDetail ==
    \/ KeySaved
    \/ LoadAllMailNoKey
    \/ \E l \in LoadIds : LoadAllMail(l)
    \/ LoadSettles
    \/ \E i \in 1..5, fault \in MapFaults : ShowMailDetail(i, fault)
    \/ CloseModal

SpecDetail == Init /\ [][NextDetail]_vars

\* key, and loads that record what the list showed when they began
NextShown ==
    \/ KeySaved
    \/ LoadAllMailNoKey
    \/ \E l \in LoadIds : LoadAllMailShown(l)
    \/ LoadSettles

SpecShown == Init /\ [][NextShown]_vars

\* ---------------------------------------------------- loads that progress

\* the continuation of invocation l, whatever the responses are
LoadContinues(l) ==
    \E resp \in [mail : Responses["mail"], letters : Responses["letters"],
                  packages : Responses["packages"]],
       rnd \in RandDraws :
       LoadContinue(l, resp, rnd)

\* key, loads and search
NextLive ==
    \/ KeySaved
    \/ LoadAllMailNoKey
    \/ \E l \in LoadIds : LoadAllMail(l)
    \/ LoadSettles
    \/ \E query \in Queries : SearchMail(query)

\* every fetch that was issued settles, and the event loop runs the
\* continuation of an await whose promise has settled
Progress ==
    \A l \in LoadIds :
        /\ WF_vars(FetchFulfil(l) \/ FetchReject(l))
        /\ WF_vars(LoadContinues(l))

SpecLive == Init /\ [][NextLive]_vars /\ Progress

\* ------------------------------------------- feeds that number their own

\* a mail and a letter to which their endpoints gave the same id
RawM7 ==
    [id |-> "7", from |-> <<"a", "n", "n">>, subject |-> <<"H", "i">>,
     date |-> Now0 - 2 * HourMs]

RawL7 ==
    [id |-> "7", title |-> <<"Y", "o">>, received_at |-> Now0 - HourMs,
     location |-> [lat |-> 1, lng |-> 2]]

\* endpoints that each number their records themselves
IdFeed ==
    [mail |-> JArray(<<RawM7, RawM2>>),
     letters |-> JObject([letters |-> JArray(<<RawL7>>)]),
     packages |-> Feed["packages"]]

IdResponses ==
    [s \in Sources |->
        {[ok |-> TRUE, body |-> IdFeed[s]], [ok |-> FALSE, body |-> ErrorBody]}]

\* loads of those feeds and the detail modal
NextIds ==
    \/ \E l \in LoadIds : LoadAllMail(l)
    \/ \E l \in LoadIds : FetchFulfil(l)
    \/ \E l \in LoadIds : FetchReject(l)
    \/ \E l \in LoadIds,
          resp \in [mail : IdResponses["mail"], letters : IdResponses["letters"],
                    packages : IdResponses["packages"]] :
          LoadContinue(l, resp, FirstDraw)
    \/ \E i \in 1..5, fault \in MapFaults : ShowMailDetail(i, fault)
    \/ CloseModal

SpecIds == Init /\ [][NextIds]_vars

\* ---------------------------------------------- calls of the pure methods

\* the state of the application, which a pure method leaves alone
app ==
    <<currentFilter, apiKey, mailData, allMailItems, currentMap, mapsAlive,
      mailList, stats, searchBox, refreshBtn, modal, loads, now, provenance,
      delivered>>

\* an object without fields
EmptyRecord == [f \in {} |-> f]

\* the ways a record may have field f: not at all, or with a value of V
Opt(f, V) == {EmptyRecord} \cup {f :> v : v \in V}

\* values of data.location: complete, without label, without lng, with a
\* latitude of 0
LocationShapes ==
    {[lat |-> 1, lng |-> 2, label |-> "Home"], [lat |-> 1, lng |-> 2],
     [lat |-> 1], [lat |-> 0, lng |-> 2]}

\* values of data.tracking_location: complete, without lng, without either
TrackingShapes == {[lat |-> 5, lng |-> 6], [lat |-> 5], [label |-> "Depot"]}

\* raw records as extractLocationData may meet them
LocationRecords ==
    {a @@ b @@ c @@ d :
        a \in Opt("location", LocationShapes),
        b \in Opt("latitude", {0, 3}),
        c \in Opt("longitude", {4}),
        d \in Opt("tracking_location", TrackingShapes)}

\* showMailDetail's call of extractLocationData on an item of that record
ExtractLocationDataCall(raw) ==
    /\ call = NoCall
    /\ call' = [fn |-> "extractLocationData",
                raw |-> raw,
                out |-> extractLocationData([originalData |-> raw])]
    /\ UNCHANGED app

\* the text a record holds in each field of the fallback chains
FieldText ==
    [from |-> <<"f">>, sender |-> <<"s">>, carrier |-> <<"c">>,
     subject |-> <<"j">>, title |-> <<"t">>, tracking_number |-> <<"n">>,
     preview |-> <<"p">>, body |-> <<"b">>, description |-> <<"d">>,
     status |-> <<"u">>]

\* the date a record holds in each date field
FieldDate ==
    [date |-> Now0 - HourMs, created_at |-> Now0 - 2 * HourMs,
     received_at |-> Now0 - 3 * HourMs]

\* records over the fields fs: each field absent, empty (the empty string,
\* for a date the falsy 0) or filled with the value val gives it
ChainRecords(fs, val, empty) ==
    {[f \in DOMAIN c |-> IF c[f] THEN val[f] ELSE empty] :
        c \in UNION {[D -> BOOLEAN] : D \in SUBSET fs}}

\* the records the normalizers are called with: one fallback chain varied at
\* a time, the id and the unread flag, a null and a number
NormalizeRecords ==
    ChainRecords({"from", "sender", "carrier"}, FieldText, <<>>)
        \cup ChainRecords({"subject", "title", "tracking_number"}, FieldText, <<>>)
        \cup ChainRecords({"preview", "body", "description", "status"},
                          FieldText, <<>>)
        \cup ChainRecords({"date", "created_at", "received_at"}, FieldDate, 0)
        \cup {a @@ b : a \in Opt("id", {"", "x1"}),
                       b \in Opt("unread", BOOLEAN)}
        \cup {NullRecord, NumberRecord}

\* a JSON value that is a non-empty string: truthy, no array, no object
JText == [kind |-> "string"]

\* two lists of records without a null
ListA == JArray(<<RawM1, RawP1>>)
ListB == JArray(<<RawL1>>)

\* the payloads normalize<Source>Data is called with: lists of one record,
\* and the shapes a list may be wrapped in or missing from
Payloads(key) ==
    {JArray(<<r>>) : r \in NormalizeRecords}
        \cup {JNull, JText, JArray(<<>>), ListA, ErrorBody,
              JObject(key :> ListA),
              JObject("data" :> ListA),
              JObject(key :> ListB @@ "data" :> ListA),
              JObject(key :> JNull @@ "data" :> ListA),
              JObject(key :> JText @@ "data" :> ListA),
              JObject(key :> ErrorBody @@ "data" :> ListA),
              JObject(key :> JNull),
              JObject("data" :> JText),
              JObject("other" :> ListA)}

\* what Math.random().toString(36) returns during a call, by position
CallDraw == <<"0.c1", "0.c2">>

\* the normalizer loadAllMail applies to the body of a source
normalizeData(source, data, clock, rnd) ==
    CASE source = "mail" -> normalizeMailData(data, clock, rnd)
      [] source = "letters" -> normalizeLettersData(data, clock, rnd)
      [] source = "packages" -> normalizePackagesData(data, clock, rnd)

\* loadAllMail's call of the normalizer of a source on a payload
NormalizeCall(source, data) ==
    /\ call = NoCall
    /\ call' = [fn |-> "normalize",
                source |-> source,
                data |-> data,
                threw |-> normalizeThrows(data, source),
                out |-> IF normalizeThrows(data, source) THEN <<>>
                        ELSE normalizeData(source, data, now, CallDraw)]
    /\ UNCHANGED app

\* the ages of the dates formatDate is called with, in milliseconds: every
\* whole number of minutes, hours and days up to the bounds, one millisecond
\* less and one more; a negative age is a date ahead of the clock
Ages ==
    {k * MinuteMs + o : k \in 0..MaxMinutes, o \in {-1, 0, 1}}
        \cup {k * HourMs + o : k \in 0..MaxHours, o \in {-1, 0, 1}}
        \cup {k * DayMs + o : k \in 0..MaxDays, o \in {-1, 0, 1}}

\* createMailItemHTML's call of formatDate on a date of that age
FormatDateCall(age) ==
    /\ call = NoCall
    /\ call' = [fn |-> "formatDate",
                date |-> now - age,
                out |-> formatDate(now - age, now)]
    /\ UNCHANGED app

\* the text a record holds in each string field extractDetails looks at
DetailText ==
    [status |-> <<"u">>, tracking_number |-> <<"n">>, carrier |-> <<"c">>,
     dimensions |-> <<"x">>, sender_address |-> <<"a">>,
     recipient_address |-> <<"r">>, estimated_delivery |-> <<"e">>]

\* raw records as extractDetails may meet them: four string fields absent,
\* empty or filled, the three others all absent or all filled, the id and
\* the weight absent, falsy or filled, and fields extractDetails does not
\* look at
DetailRecords ==
    {a @@ b @@ c @@ d @@ e :
        a \in ChainRecords({"status", "tracking_number", "carrier", "dimensions"},
                           DetailText, <<>>),
        b \in {EmptyRecord,
                [sender_address |-> DetailText["sender_address"],
                 recipient_address |-> DetailText["recipient_address"],
                 estimated_delivery |-> DetailText["estimated_delivery"]]},
        c \in Opt("id", {"", "x1"}),
        d \in Opt("weight", {0, 2}),
        e \in {EmptyRecord, [from |-> <<"f">>, location |-> [lat |-> 1, lng |-> 2]]}}

\* showMailDetail's call of extractDetails on an item of that record; after
\* is the record once the call has returned, no statement of extractDetails
\* writing to it
ExtractDetailsCall(raw) ==
    /\ call = NoCall
    /\ call' = [fn |-> "extractDetails",
                raw |-> raw,
                after |-> raw,
                out |-> extractDetails([originalData |-> raw])]
    /\ UNCHANGED app

\* the pure methods, called with arguments of bounded sets
NextCalls ==
    \/ \E raw \in LocationRecords : ExtractLocationDataCall(raw)
    \/ \E source \in Sources : \E data \in Payloads(source) :
          NormalizeCall(source, data)
    \/ \E age \in Ages : FormatDateCall(age)
    \/ \E raw \in DetailRecords : ExtractDetailsCall(raw)

SpecCalls == Init /\ [][NextCalls]_vars

\* ------------------------------------------------------------------ claims

\* b holds the elements of a, each as often
IsPerm(a, b) ==
    /\ Len(a) = Len(b)
    /\ \A x \in Range(a) \cup Range(b) :
          Cardinality({i \in 1..Len(a) : a[i] = x})
              = Cardinality({i \in 1..Len(b) : b[i] = x})

AllResponses ==
    [mail : Responses["mail"], letters : Responses["letters"],
     packages : Responses["packages"]]

\* the list shows the rendering of displayMail, not a spinner or an error
Rendered == mailList.kind \in {"items", "empty"}

RowItems == [i \in 1..Len(mailList.rows) |-> mailList.rows[i].item]

\* a step that ends invocation l in the catch block
LoadFails(l) ==
    \/ FetchReject(l)
    \/ \E resp \in AllResponses, rnd \in RandDraws :
          LoadThrows(resp) /\ LoadContinue(l, resp, rnd)

\* C1: a loadAllMail invocation one of whose fetches rejects, answers with a
\* status that is not ok or has a body that is no JSON leaves mailData and
\* allMailItems as they are, in the step that ends it and in every step it
\* took before.  Stated as: a step that changes the store is no step of a
\* failing invocation.
C1_AllOrNothing ==
    [][UNCHANGED <<mailData, allMailItems>>
          \/ \A l \in LoadIds :
                ~(LoadAllMail(l) \/ FetchFulfil(l) \/ LoadFails(l))]_vars

\* C1 witness: a load has failed while the store held the items of an earlier
\* successful load
C1_Witness ==
    /\ mailList.kind = "error"
    /\ allMailItems # <<>>
    /\ \A l \in LoadIds : loads[l].pc = "idle"

\* an item of the list matches the text of the search box
MatchesSearch(it) ==
    Includes(toLowerCase(ItemText(it, now)), toLowerCase(searchBox))

\* C2: the items visible in the rendered list are those of the base set of
\* the current filter that match the current search text.
C2_VisibleIsFilterAndSearch ==
    Rendered =>
        Range(DisplayedItems(mailList))
            = {it \in Range(BaseItems(currentFilter, mailData, allMailItems)) :
                  MatchesSearch(it)}

\* C3: the three stored sequences and the stored union keep the order the
\* sources delivered, the union being mail ++ letters ++ packages.
C3_StoreKeepsSourceOrder ==
    /\ mailData = delivered.mailData
    /\ allMailItems = delivered.allMailItems
    /\ allMailItems = mailData.mail \o mailData.letters \o mailData.packages

\* C4: with loads overlapping, in every state a handler can observe the three
\* category sequences and the union were written by one and the same
\* invocation, and the union holds the items of the three sequences.
C4_StoreFromOneLoad ==
    /\ \A c \in DOMAIN provenance : provenance[c] = provenance["all"]
    /\ IsPerm(allMailItems,
              mailData.mail \o mailData.letters \o mailData.packages)
    /\ IsPerm(mailData.mail, delivered.mailData.mail)
    /\ IsPerm(mailData.letters, delivered.mailData.letters)
    /\ IsPerm(mailData.packages, delivered.mailData.packages)
    /\ delivered.allMailItems
          = delivered.mailData.mail \o delivered.mailData.letters
              \o delivered.mailData.packages

\* C4 witness: the second of two overlapping invocations has written the
\* store while the first is still waiting for its fetches
C4_Witness ==
    /\ provenance["all"] = 2
    /\ loads[1].pc = "fetching"
    /\ allMailItems # <<>>

\* C5: once a load has succeeded, the total shown is |mail| + |letters| +
\* |packages| and the length of the union, and each category count is the
\* length of its sequence.
C5_TotalIsSum ==
    provenance["all"] # 0 =>
        /\ stats.totalAll
              = Len(mailData.mail) + Len(mailData.letters) + Len(mailData.packages)
        /\ stats.totalAll = Len(allMailItems)
        /\ stats.totalMail = Len(mailData.mail)
        /\ stats.totalLetters = Len(mailData.letters)
        /\ stats.totalPackages = Len(mailData.packages)

\* C5 witness: a load of all three feeds has succeeded
C5_Witness ==
    /\ provenance["all"] # 0
    /\ stats.totalMail > 0 /\ stats.totalLetters > 0 /\ stats.totalPackages > 0

\* C6: once a load has succeeded, the unread count shown is the number of
\* union items whose unread flag is true, and it is the number of items
\* listed when the list is rendered under 'unread' and the search is empty.
C6_UnreadCount ==
    provenance["all"] # 0 =>
        /\ stats.unread
              = Cardinality({i \in 1..Len(allMailItems) :
                                allMailItems[i].unread = TRUE})
        /\ (Rendered /\ currentFilter = "unread" /\ searchBox = <<>>)
              => Len(DisplayedItems(mailList)) = stats.unread

\* C6 witness: 'unread' is rendered with an empty search after a search was
\* made, and some but not all items are unread
C6_Witness ==
    /\ mailList.kind = "items" /\ currentFilter = "unread" /\ searchBox = <<>>
    /\ stats.unread > 0 /\ stats.unread < Len(allMailItems)

\* the category a filter value names
CategoryOf(filter) ==
    CASE filter = "mail" -> "mail"
      [] filter = "letters" -> "letter"
      [] filter = "packages" -> "package"

\* C7: the rendered list holds, for 'all', the items of the union; for
\* 'mail', 'letters', 'packages' the items of that category's sequence and no
\* item of another category; for 'unread' the union items with unread = true
\* and no other.
C7_BaseSetOfFilter ==
    Rendered =>
        /\ currentFilter = "all" => IsPerm(RowItems, allMailItems)
        /\ currentFilter = "mail" => IsPerm(RowItems, mailData.mail)
        /\ currentFilter = "letters" => IsPerm(RowItems, mailData.letters)
        /\ currentFilter = "packages" => IsPerm(RowItems, mailData.packages)
        /\ currentFilter \in {"mail", "letters", "packages"} =>
              /\ \A i \in 1..Len(RowItems) :
                    RowItems[i].type = CategoryOf(currentFilter)
              /\ \A i \in 1..Len(allMailItems) :
                    allMailItems[i].type = CategoryOf(currentFilter)
                        => allMailItems[i] \in Range(RowItems)
        /\ currentFilter = "unread" =>
              /\ \A i \in 1..Len(RowItems) : RowItems[i].unread = TRUE
              /\ \A i \in 1..Len(allMailItems) :
                    allMailItems[i].unread = TRUE
                        => allMailItems[i] \in Range(RowItems)
              /\ Range(RowItems) \subseteq Range(allMailItems)
              /\ Cardinality(Range(RowItems)) = Len(RowItems)

\* C7 witness: a category filter is rendered over a store that holds items
\* of the other categories too
C7_Witness ==
    /\ mailList.kind = "items" /\ currentFilter = "packages"
    /\ Len(mailData.mail) > 0 /\ Len(mailData.letters) > 0
    /\ Len(mailList.rows) = Len(mailData.packages)

\* the place of an item in mail ++ letters ++ packages as delivered
SourcePos(it) ==
    Min({k \in 1..Len(delivered.allMailItems) : delivered.allMailItems[k] = it})

\* C8: the rendered list is ordered by date descending, and two items of
\* equal date stand in source-concatenation order, whatever was rendered
\* before.
C8_SortedStable ==
    Rendered =>
        \A i, j \in 1..Len(RowItems) :
            i < j =>
                /\ RowItems[i].date >= RowItems[j].date
                /\ RowItems[i].date = RowItems[j].date
                      => SourcePos(RowItems[i]) < SourcePos(RowItems[j])

\* C8 witness: 'unread' is rendered with two items of equal date from
\* different sources, after renders under 'all' and 'mail' have sorted the
\* stored arrays
C8_Witness ==
    /\ mailList.kind = "items" /\ currentFilter = "unread"
    /\ allMailItems # delivered.allMailItems
    /\ mailData.mail # delivered.mailData.mail
    /\ \E i, j \in 1..Len(RowItems) :
          /\ i < j
          /\ RowItems[i].date = RowItems[j].date
          /\ RowItems[i].type # RowItems[j].type

\* C9: after a load that fails, the list shows the item sequence it showed
\* before that load was started.
C9_FailedLoadKeepsList ==
    [][\A l \in LoadIds :
          LoadFails(l) => DisplayedItems(mailList') = loads[l].shown]_vars

\* C10: at most one map instance is alive at any time, a new instance is
\* created only when every earlier one has been disposed of, and closeModal,
\* whenever it runs, leaves no instance alive.
C10_MapLifecycle ==
    [][/\ Cardinality(mapsAlive') <= 1
       /\ mapsAlive' \ mapsAlive # {} => mapsAlive' \cap mapsAlive = {}
       /\ closeModalMap(currentMap', mapsAlive').mapsAlive = {}]_vars

\* a shape that supplies both coordinates
HasBoth(r, x, y) == Has(r, x) /\ TruthyNum(r[x]) /\ Has(r, y) /\ TruthyNum(r[y])

\* the coordinates of the first shape of a raw record that supplies both, in
\* the order location, latitude/longitude, tracking_location; <<>> for none
FirstCompleteShape(raw) ==
    IF Has(raw, "location") /\ HasBoth(raw.location, "lat", "lng")
    THEN <<[lat |-> raw.location.lat, lng |-> raw.location.lng]>>
    ELSE IF HasBoth(raw, "latitude", "longitude")
    THEN <<[lat |-> raw.latitude, lng |-> raw.longitude]>>
    ELSE IF Has(raw, "tracking_location")
            /\ HasBoth(raw.tracking_location, "lat", "lng")
    THEN <<[lat |-> raw.tracking_location.lat,
            lng |-> raw.tracking_location.lng]>>
    ELSE <<>>

\* C11: extractLocationData returns the point of the first shape, in the
\* order location, latitude/longitude, tracking_location, that has both a lat
\* and a lng, and none when no shape has both.
C11_FirstCompleteShape ==
    call.fn = "extractLocationData" =>
        LET want == FirstCompleteShape(call.raw)
        IN  IF want = <<>> THEN call.out = <<>>
            ELSE /\ call.out # <<>>
                 /\ Has(call.out[1], "lat") /\ call.out[1].lat = want[1].lat
                 /\ Has(call.out[1], "lng") /\ call.out[1].lng = want[1].lng

\* the payload of the call is a list once its container key is unwrapped
CallList == Unwrap(call.data, call.source)

\* the records of that list
CallRecords == CallList.items

\* the fallback chains of each source, and the defaults behind them
ChainOf ==
    [mail |-> [from |-> <<"from", "sender">>,
               subject |-> <<"subject">>,
               preview |-> <<"preview", "body">>,
               date |-> <<"date", "created_at">>],
     letters |-> [from |-> <<"from", "sender">>,
                  subject |-> <<"subject", "title">>,
                  preview |-> <<"preview", "description">>,
                  date |-> <<"date", "received_at">>],
     packages |-> [from |-> <<"from", "sender", "carrier">>,
                   subject |-> <<"subject", "tracking_number">>,
                   preview |-> <<"preview", "description", "status">>,
                   date |-> <<"date", "received_at">>]]

DefaultSubject ==
    [mail |-> <<"N", "o", " ", "S", "u", "b", "j", "e", "c", "t">>,
     letters |-> <<"L", "e", "t", "t", "e", "r">>,
     packages |-> <<"P", "a", "c", "k", "a", "g", "e">>]

\* the first field of chain that rec has with a value other than empty, else
\* dflt
RECURSIVE FirstPresent(_, _, _, _)
FirstPresent(rec, chain, empty, dflt) ==
    IF chain = <<>> THEN dflt
    ELSE IF Head(chain) \in DOMAIN rec /\ rec[Head(chain)] # empty
    THEN rec[Head(chain)]
    ELSE FirstPresent(rec, Tail(chain), empty, dflt)

\* C12: for a payload that is a list once unwrapped, whatever its records
\* have or lack, null and non-object records included, the normalizer does
\* not throw and returns one item per record whose from, subject, preview
\* and date are the first present non-empty field of the source's chain, or
\* else 'Unknown', the source's default subject, '' and the current time.
C12_NormalizeTotal ==
    (call.fn = "normalize" /\ TruthyJson(call.data) /\ IsArray(CallList)) =>
        /\ ~call.threw
        /\ Len(call.out) = Len(CallRecords)
        /\ \A i \in 1..Len(call.out) :
              LET rec == CallRecords[i]
                  chain == ChainOf[call.source]
              IN  /\ call.out[i].from
                        = FirstPresent(rec, chain.from, <<>>,
                                       <<"U", "n", "k", "n", "o", "w", "n">>)
                  /\ call.out[i].subject
                        = FirstPresent(rec, chain.subject, <<>>,
                                       DefaultSubject[call.source])
                  /\ call.out[i].preview
                        = FirstPresent(rec, chain.preview, <<>>, <<>>)
                  /\ call.out[i].date
                        = FirstPresent(rec, chain.date, 0, now)

\* C13: for every raw record of every source, the unread flag of the item
\* normalized from it is the raw unread value when the record has the field,
\* an explicit false included, and true when it has none.
C13_UnreadVerbatim ==
    (call.fn = "normalize" /\ ~call.threw) =>
        \A i \in 1..Len(call.out) :
            LET rec == call.out[i].originalData
            IN  /\ rec = CallRecords[i]
                /\ "unread" \in DOMAIN rec => call.out[i].unread = rec.unread
                /\ "unread" \notin DOMAIN rec => call.out[i].unread = TRUE

\* C13 witness: a record with unread: false was normalized for the letters
\* source, and its item is not unread
C13_Witness ==
    /\ call.fn = "normalize" /\ call.source = "letters" /\ ~call.threw
    /\ Len(call.out) = 1
    /\ "unread" \in DOMAIN CallRecords[1] /\ CallRecords[1].unread = FALSE
    /\ call.out[1].unread = FALSE

\* the payload holds a value other than null under key k
Holds(data, k) ==
    data.kind = "object" /\ k \in DOMAIN data.fields
        /\ data.fields[k].kind # "null"

\* where the list of a payload is looked for: under the category key, then
\* under 'data', then in the payload itself
ListOf(data, key) ==
    IF Holds(data, key) THEN data.fields[key]
    ELSE IF Holds(data, "data") THEN data.fields["data"]
    ELSE data

\* the item type of each source
TypeOf == [mail |-> "mail", letters |-> "letter", packages |-> "package"]

\* C14: a normalizer given a bare array, or an object holding the array under
\* the category key or under 'data', returns the items of that array's
\* records, one per record in order; given an absent payload, or one where
\* the value found in the order category key, 'data', payload is no list, it
\* returns the empty sequence; it does not throw.  Stated for lists whose
\* records are not null.
C14_Unwrap ==
    call.fn = "normalize" =>
        LET list == ListOf(call.data, call.source)
        IN  IF call.data.kind = "null" \/ list.kind # "array"
            THEN ~call.threw /\ call.out = <<>>
            ELSE (\A i \in 1..Len(list.items) : list.items[i] # NullRecord) =>
                    /\ ~call.threw
                    /\ Len(call.out) = Len(list.items)
                    /\ \A i \in 1..Len(list.items) :
                          /\ call.out[i].originalData = list.items[i]
                          /\ call.out[i].type = TypeOf[call.source]

\* C14 witness: the category key holds an object that is no list, 'data'
\* holds a list of two records, and the normalizer returned no item
C14_Witness ==
    /\ call.fn = "normalize" /\ call.source = "packages"
    /\ call.data.kind = "object"
    /\ Holds(call.data, "packages") /\ call.data.fields["packages"].kind = "object"
    /\ Holds(call.data, "data") /\ call.data.fields["data"].kind = "array"
    /\ Len(call.data.fields["data"].items) = 2
    /\ ~call.threw /\ call.out = <<>>

\* C15: after every successful load no two items of allMailItems have the
\* same id, items of different categories included, and the id of every
\* listed item resolves in showMailDetail to that item.
C15_IdsUnique ==
    provenance["all"] # 0 =>
        /\ \A i, j \in 1..Len(allMailItems) :
              i # j => allMailItems[i].id # allMailItems[j].id
        /\ \A i \in 1..Len(mailList.rows) :
              FindById(allMailItems, mailList.rows[i].item.id)
                  = <<mailList.rows[i].item>>

\* the whole units of a time span of less than most + 1 units
Whole(span, unit, most) ==
    CHOOSE k \in 0..most : k * unit <= span /\ span < (k + 1) * unit

\* C16: with elapsed = now - timestamp in milliseconds, formatDate gives
\* 'now' under 1 minute, the whole minutes and 'm' under 60 minutes, the
\* whole hours and 'h' under 24 hours, the whole days and 'd' under 7 days,
\* and the absolute short date from 7 days on; a boundary belongs to the
\* larger unit.
C16_RelativeTime ==
    call.fn = "formatDate" =>
        LET elapsed == now - call.date
        IN  /\ elapsed < 60000 => call.out = <<"n", "o", "w">>
            /\ (60000 <= elapsed /\ elapsed < 60 * 60000) =>
                  call.out = Digits(Whole(elapsed, 60000, 59)) \o <<"m">>
            /\ (60 * 60000 <= elapsed /\ elapsed < 24 * 3600000) =>
                  call.out = Digits(Whole(elapsed, 3600000, 23)) \o <<"h">>
            /\ (24 * 3600000 <= elapsed /\ elapsed < 7 * 86400000) =>
                  call.out = Digits(Whole(elapsed, 86400000, 6)) \o <<"d">>
            /\ 7 * 86400000 <= elapsed => call.out = ShortDate(call.date)

\* C16 witness: a date of exactly 60 minutes ago was formatted as '1h'
C16_Witness ==
    /\ call.fn = "formatDate"
    /\ now - call.date = 60 * 60000
    /\ call.out = <<"1", "h">>

\* the fixed vocabulary of the detail view, in its order, with its labels
Vocabulary ==
    <<[field |-> "id", label |-> "ID", empty |-> ""],
      [field |-> "status", label |-> "Status", empty |-> <<>>],
      [field |-> "tracking_number", label |-> "Tracking", empty |-> <<>>],
      [field |-> "carrier", label |-> "Carrier", empty |-> <<>>],
      [field |-> "weight", label |-> "Weight", empty |-> 0],
      [field |-> "dimensions", label |-> "Dimensions", empty |-> <<>>],
      [field |-> "sender_address", label |-> "Sender Address", empty |-> <<>>],
      [field |-> "recipient_address", label |-> "Recipient", empty |-> <<>>],
      [field |-> "estimated_delivery", label |-> "Est. Delivery",
       empty |-> <<>>]>>

\* the vocabulary entry a raw record has present and non-empty
Filled(raw, v) == v.field \in DOMAIN raw /\ raw[v.field] # v.empty

\* the place of a label in the vocabulary
VocabularyPos(label) ==
    CHOOSE k \in 1..Len(Vocabulary) : Vocabulary[k].label = label

\* C17: extractDetails returns exactly the fields of the fixed vocabulary
\* that are present and non-empty in the raw record, in the order of the
\* vocabulary, each with the raw value; no other field appears, and the raw
\* record is not modified.
C17_DetailVocabulary ==
    call.fn = "extractDetails" =>
        /\ \A k \in 1..Len(Vocabulary) :
              Filled(call.raw, Vocabulary[k])
                  <=> \E i \in 1..Len(call.out) :
                         /\ call.out[i].label = Vocabulary[k].label
                         /\ call.out[i].value = call.raw[Vocabulary[k].field]
        /\ \A i \in 1..Len(call.out) :
              \E k \in 1..Len(Vocabulary) : call.out[i].label = Vocabulary[k].label
        /\ \A i, j \in 1..Len(call.out) :
              i < j => VocabularyPos(call.out[i].label)
                          < VocabularyPos(call.out[j].label)
        /\ call.after = call.raw

\* C17 witness: a record with an empty status, a carrier, a weight and a
\* field outside the vocabulary gave the carrier and then the weight, and
\* nothing else
C17_Witness ==
    /\ call.fn = "extractDetails"
    /\ "status" \in DOMAIN call.raw /\ call.raw.status = <<>>
    /\ "from" \in DOMAIN call.raw
    /\ call.out = <<[label |-> "Carrier", value |-> <<"c">>],
                    [label |-> "Weight", value |-> 2]>>

\* invocation l of loadAllMail takes a step: it starts fetching, a fetch
\* settles, or it ends
LoadSteps(l) == loads'[l] # loads[l]

\* invocation l ends, in its try block or in its catch block
LoadEnds(l) == loads[l].pc = "fetching" /\ loads'[l].pc = "idle"

\* C18: a step of a load, successful or not, leaves the active filter as it
\* is, and the list a load renders when it succeeds holds the items of the
\* base set of that filter over the store the load has written.
C18_ViewOutlivesLoads ==
    [][((\E l \in LoadIds : LoadSteps(l)) \/ LoadAllMailNoKey) =>
          /\ currentFilter' = currentFilter
          /\ ((\E l \in LoadIds : LoadEnds(l)) /\ mailList'.kind # "error") =>
                /\ mailList'.kind \in {"items", "empty"}
                /\ IsPerm(DisplayedItems(mailList'),
                          BaseItems(currentFilter, mailData', allMailItems'))]_vars

\* C18 witness: under the filter 'packages' the second of two overlapping
\* loads has rendered the packages of the store it wrote, fewer than the
\* union holds
C18_Witness ==
    /\ currentFilter = "packages"
    /\ provenance["all"] = 2 /\ loads[1].pc = "fetching" /\ loads[2].pc = "idle"
    /\ mailList.kind = "items"
    /\ Len(mailList.rows) = Len(mailData.packages)
    /\ Len(mailList.rows) < Len(allMailItems)

\* the items the store holds, whatever their order
SameItems ==
    \/ UNCHANGED <<mailData, allMailItems>>
    \/ /\ IsPerm(mailData'.mail, mailData.mail)
       /\ IsPerm(mailData'.letters, mailData.letters)
       /\ IsPerm(mailData'.packages, mailData.packages)
       /\ IsPerm(allMailItems', allMailItems)

EndsInSuccess(l) ==
    /\ \A c \in DOMAIN provenance : provenance'[c] = l
    /\ IsPerm(allMailItems', delivered'.allMailItems)
    /\ IsPerm(allMailItems',
              mailData'.mail \o mailData'.letters \o mailData'.packages)
    /\ mailList'.kind \in {"items", "empty"}
    /\ refreshBtn' = "idle"

\* invocation l ends in its catch block: the store is as it was, the error
\* notice is shown, the button is reset by showError
EndsInError(l) ==
    /\ UNCHANGED <<mailData, allMailItems, stats, provenance, delivered>>
    /\ mailList' = ErrorList
    /\ refreshBtn' = "idle"

\* C19: every loadAllMail invocation that starts fetching finishes, its
\* fetches settling, and the step that ends it either replaces the store and
\* renders the list, or shows the error notice and leaves the store as it
\* was, never both and never neither; either way the loading indicator is
\* cleared.
C19_LoadFinishes ==
    /\ [][\A l \in LoadIds :
             LoadEnds(l) => (EndsInSuccess(l) /\ ~EndsInError(l))
                               \/ (EndsInError(l) /\ ~EndsInSuccess(l))]_vars
    /\ \A l \in LoadIds : (loads[l].pc = "fetching") ~> (loads[l].pc = "idle")

\* C19 witness: under a key a first load has ended in its catch block: the
\* error notice is shown over the store as constructed and the button is
\* reset
C19_Witness ==
    /\ apiKey # <<>>
    /\ mailList = ErrorList /\ refreshBtn = "idle"
    /\ \A l \in LoadIds : loads[l].pc = "idle"
    /\ provenance["all"] = 0 /\ allMailItems = <<>>

====
